---- MODULE Spec2Model ----
(***************************************************************************)
(* A model of onshape_to_robot/exporter_mujoco.py: class ExporterMuJoCo.    *)
(*                                                                         *)
(* The exporter is an object with three accumulators (xml, meshes,         *)
(* materials) and a configuration read at construction.  build(robot)      *)
(* walks the link tree and returns the document.  The document is modelled *)
(* as the sequence of the strings build() appends, each one a record       *)
(* [tag, name, attrs]; an attribute is <<key, fields>> where fields is the *)
(* sequence of the space separated texts of its value.  Poses and inertia  *)
(* values (pos_quat, get_dynamics) are functions of the immutable robot    *)
(* only and are left out of the elements.                                  *)
(*                                                                         *)
(* Python values: an optional value is a sequence of length 0 (None) or 1; *)
(* a dict with string keys is a function on the set of its keys, except    *)
(* self.materials, whose insertion order the asset section shows and which *)
(* is therefore a sequence of <<name, color>> with unique names.           *)
(***************************************************************************)
EXTENDS Integers, Sequences, FiniteSets, TLC

VARIABLES
  suite,      \* which family of robots the caller exports in this run
  config,     \* the Config the exporter was constructed with (<<>>: None)
  xml,        \* self.xml
  meshes,     \* self.meshes (a list, duplicates kept)
  materials,  \* self.materials
  lastRobot,  \* the argument of the latest build() call
  status,     \* "idle" | "done" (build returned self.xml) | "error" (it raised)
  warnings,   \* warning lines printed by the latest build() call
  builds,     \* build() calls made so far
  prev        \* what the call before the latest one was given and produced

vars == <<suite, config, xml, meshes, materials, lastRobot, status, warnings, builds, prev>>

(* Bounds of the model *)
MaxLinks == 4
MaxBuilds == 2
MaxEffort == 2

None == <<>>
Some(v) == <<v>>

Range(s) == {s[i] : i \in 1..Len(s)}

(***************************************************************************)
(* Text.  Str is Python's str() of an int, as the f-strings apply it.      *)
(***************************************************************************)
Digit == <<"0", "1", "2", "3", "4", "5", "6", "7", "8", "9">>

RECURSIVE Str(_)
Str(n) ==
  IF n < 0 THEN "-" \o Str(0 - n)
  ELSE IF n < 10 THEN Digit[n + 1]
  ELSE Str(n \div 10) \o Digit[(n % 10) + 1]

\* f'{value}' of a property value: class and type hold strings, the others numbers
StringKeys == {"class", "type"}
Format(key, value) == IF key \in StringKeys THEN value ELSE Str(value)

RECURSIVE Join(_, _)
Join(pieces, sep) ==
  IF Len(pieces) = 0 THEN ""
  ELSE IF Len(pieces) = 1 THEN pieces[1]
  ELSE pieces[1] \o sep \o Join(Tail(pieces), sep)

(***************************************************************************)
(* A mesh path is [dirs, pieces]: its directories, and the pieces of its   *)
(* last component between the dots ("meshes/arm.v2.stl" is                 *)
(* [dirs |-> <<"meshes">>, pieces |-> <<"arm", "v2", "stl">>]).            *)
(***************************************************************************)
Basename(path) == Join(path.pieces, ".")
NoExt(path) == Join(SubSeq(path.pieces, 1, Len(path.pieces) - 1), ".")

(***************************************************************************)
(* Elements of the document                                                *)
(***************************************************************************)
El(tag, name, attrs) == [tag |-> tag, name |-> name, attrs |-> attrs]
Comment(kind, text) == El("!" \o kind, text, <<>>)

\* self, as the methods see it
Self == [config |-> config, xml |-> xml, meshes |-> meshes, materials |-> materials,
         warnings |-> 0, error |-> ""]

\* an exception raised earlier in the call has left the method: nothing more runs
Running(self) == self.error = ""

append(self, line) ==
  IF Running(self) THEN [self EXCEPT !.xml = Append(@, line)] ELSE self

Raise(self, what) ==
  IF Running(self) THEN [self EXCEPT !.error = what] ELSE self

\* (mutant) a dict that keeps the first value written under a key
DictSet_KeepFirst(d, k, v) ==
  IF \E i \in 1..Len(d) : d[i][1] = k THEN d ELSE Append(d, <<k, v>>)

\* d[k] = v on an insertion ordered dict
RECURSIVE DictSet(_, _, _)
DictSet(d, k, v) ==
  IF Len(d) = 0 THEN << <<k, v>> >>
  ELSE IF d[1][1] = k THEN << <<k, v>> >> \o Tail(d)
  ELSE <<d[1]>> \o DictSet(Tail(d), k, v)

draw_collisions(self) == IF self.config = None THEN FALSE ELSE self.config[1].draw_collisions
collision_shapes_only(self) ==
  IF self.config = None THEN FALSE ELSE self.config[1].collision_shapes_only
additional_xml(self) == IF self.config = None THEN "" ELSE self.config[1].additional_xml

(***************************************************************************)
(* The robot (robot.py, consumed read-only).  A Robot is                   *)
(* [name, links, joints]: links[1] is the base link and joints is the list *)
(* robot.joints in its stored order.  A Joint names its parent and child   *)
(* link; a Link is [name, parts, frames]; a Part is                        *)
(* [name, mesh_file, shapes, color], mesh_file and shapes optional.        *)
(***************************************************************************)
REVOLUTE == "revolute"
PRISMATIC == "prismatic"
FIXED == "fixed"

get_base_link(robot) == robot.links[1]

LinkNamed(robot, name) ==
  robot.links[CHOOSE i \in 1..Len(robot.links) : robot.links[i].name = name]

\* the joints whose parent is the link, in the order the robot stores them
get_link_joints(robot, link) ==
  SelectSeq(robot.joints, LAMBDA joint : joint.parent = link.name)

Warn(self) ==
  IF Running(self) THEN [self EXCEPT !.warnings = @ + 1] ELSE self

SetMaterial(self, material_name, color) ==
  IF Running(self) THEN [self EXCEPT !.materials = DictSet(@, material_name, color)] ELSE self

RegisterMesh(self, mesh_file) ==
  IF Running(self) THEN [self EXCEPT !.meshes = Append(@, mesh_file)] ELSE self

(***************************************************************************)
(* add_actuators                                                           *)
(***************************************************************************)
ActuatorKeys == <<"class", "kp", "kd", "ki">>

Actuated(joint) ==
  IF "actuated" \in DOMAIN joint.properties THEN joint.properties["actuated"] ELSE TRUE

ActuatorType(joint) ==
  IF "type" \in DOMAIN joint.properties THEN joint.properties["type"] ELSE "position"

RECURSIVE ActuatorGains(_, _)
ActuatorGains(properties, i) ==
  IF i > Len(ActuatorKeys) THEN <<>>
  ELSE LET key == ActuatorKeys[i] IN
       (IF key \in DOMAIN properties
        THEN << <<key, <<Format(key, properties[key])>> >> >>
        ELSE <<>>) \o ActuatorGains(properties, i + 1)

\* (mutant) the lower bound written without its minus sign
ForceRange_Unsigned(properties) ==
  IF "effort" \in DOMAIN properties
  THEN << <<"forcerange",
            <<Format("effort", properties["effort"]),
              Format("effort", properties["effort"])>> >> >>
  ELSE <<>>

\* forcerange="-{effort} {effort}": a minus sign written before the effort's text
ForceRange(properties) ==
  IF "effort" \in DOMAIN properties
  THEN << <<"forcerange",
            <<"-" \o Format("effort", properties["effort"]),
              Format("effort", properties["effort"])>> >> >>
  ELSE <<>>

CtrlRange(joint) ==
  IF joint.limits # None /\ ActuatorType(joint) = "position"
  THEN << <<"ctrlrange", <<Str(joint.limits[1][1]), Str(joint.limits[1][2])>> >> >>
  ELSE <<>>

Actuator(joint) ==
  El(ActuatorType(joint), joint.name,
     << <<"joint", <<joint.name>> >> >>
       \o ActuatorGains(joint.properties, 1) \o ForceRange(joint.properties)
       \o CtrlRange(joint))

RECURSIVE ActuatorLoop(_, _, _)
ActuatorLoop(self, joints, i) ==
  IF i > Len(joints) THEN self
  ELSE ActuatorLoop(IF Actuated(joints[i]) THEN append(self, Actuator(joints[i])) ELSE self,
                    joints, i + 1)

add_actuators(self, robot) ==
  append(ActuatorLoop(append(self, El("actuator", "", <<>>)), robot.joints, 1),
         El("/actuator", "", <<>>))

(***************************************************************************)
(* add_inertial, add_mesh, add_shapes, add_geometries                      *)
(***************************************************************************)
add_inertial(self, link) == append(self, El("inertial", "", <<>>))

add_mesh(self, part, class_) ==
  LET mesh_file == Basename(part.mesh_file[1])
      mesh_file_no_ext == NoExt(part.mesh_file[1])
      material_name == mesh_file_no_ext \o "_material"
      geom == El("geom", "",
                 << <<"type", <<"mesh">> >>, <<"class", <<class_>> >>,
                    <<"mesh", <<mesh_file_no_ext>> >>, <<"material", <<material_name>> >> >>)
      s1 == append(self, Comment("Mesh", part.name))
      s2 == RegisterMesh(s1, mesh_file)
      s3 == SetMaterial(s2, material_name, part.color)
  IN  append(s3, geom)

\* shape.size / 2 and shape.length / 2, on the even sizes the robots use
Half(n) == n \div 2

ShapeAttrs(shape) ==
  CASE shape.kind = "Box" ->
         << <<"type", <<"box">> >>,
            <<"size", <<Str(Half(shape.size[1])), Str(Half(shape.size[2])),
                        Str(Half(shape.size[3]))>> >> >>
    [] shape.kind = "Cylinder" ->
         << <<"type", <<"cylinder">> >>,
            <<"size", <<Str(shape.size[1]), Str(Half(shape.size[2]))>> >> >>
    [] shape.kind = "Sphere" ->
         << <<"type", <<"sphere">> >>, <<"size", <<Str(shape.size[1])>> >> >>
    [] OTHER -> <<>>

AddShape(self, part, class_, shape) ==
  LET material_name == part.name \o "_material"
      visual == class_ = "visual"
      geom == El("geom", "",
                 << <<"class", <<class_>> >> >> \o ShapeAttrs(shape)
                   \o (IF visual THEN << <<"material", <<material_name>> >> >> ELSE <<>>))
      s1 == IF visual THEN SetMaterial(self, material_name, part.color) ELSE self
  IN  append(s1, geom)

RECURSIVE ShapeLoop(_, _, _, _)
ShapeLoop(self, part, class_, i) ==
  IF i > Len(part.shapes[1]) THEN self
  ELSE ShapeLoop(AddShape(self, part, class_, part.shapes[1][i]), part, class_, i + 1)

add_shapes(self, part, class_) == ShapeLoop(self, part, class_, 1)

\* (mutant) the mesh branch taken whatever the shapes-only mode
add_geometries_AnyMode(self, part, class_, what) ==
  IF what = "collision" /\ part.shapes # None
  THEN add_shapes(self, part, class_)
  ELSE IF part.mesh_file # None
  THEN add_mesh(self, part, class_)
  ELSE self

add_geometries(self, part, class_, what) ==
  IF what = "collision" /\ part.shapes # None
  THEN add_shapes(self, part, class_)
  ELSE IF part.mesh_file # None /\ (what = "visual" \/ ~collision_shapes_only(self))
  THEN add_mesh(self, part, class_)
  ELSE self

(***************************************************************************)
(* add_joint, add_frame, add_link                                          *)
(***************************************************************************)
JointKeys == <<"class", "friction", "frictionloss", "armature", "damping", "stiffness">>

\* the loop over the pass-through keys: the attributes written, or the KeyError of
\* joint.properties[key] read after key was reassigned
RECURSIVE JointProperties(_, _, _)
JointProperties(properties, i, written) ==
  IF i > Len(JointKeys) THEN [attrs |-> written, error |-> ""]
  ELSE IF JointKeys[i] \notin DOMAIN properties
  THEN JointProperties(properties, i + 1, written)
  ELSE LET key == IF JointKeys[i] = "friction" THEN "frictionloss" ELSE JointKeys[i] IN
       IF key \notin DOMAIN properties
       THEN [attrs |-> written, error |-> "KeyError"]
       ELSE JointProperties(properties, i + 1,
                            Append(written, <<key, <<Format(key, properties[key])>> >>))

JointTypeAttr(joint_type) ==
  CASE joint_type = REVOLUTE -> << <<"type", <<"hinge">> >> >>
    [] joint_type = PRISMATIC -> << <<"type", <<"slide">> >> >>
    [] joint_type = FIXED -> << <<"type", <<"free">> >> >>
    [] OTHER -> <<>>

add_joint(self, joint) ==
  LET s1 == append(self, Comment("Joint", joint.parent \o " to " \o joint.child))
      s2 == IF joint.joint_type = FIXED THEN Warn(s1) ELSE s1
      loop == JointProperties(joint.properties, 1, <<>>)
  IN  IF loop.error # "" THEN Raise(s2, loop.error)
      ELSE append(s2, El("joint", joint.name, JointTypeAttr(joint.joint_type) \o loop.attrs))

add_frame(self, link, frame) ==
  append(append(self, Comment("Frame", frame)), El("site", frame, <<>>))

RECURSIVE FrameLoop(_, _, _)
FrameLoop(self, link, i) ==
  IF i > Len(link.frames) THEN self
  ELSE FrameLoop(add_frame(self, link, link.frames[i]), link, i + 1)

\* (mutant) the visual geometry always selected with the visual policy
AddPart_VisualPolicy(self, part) ==
  add_geometries(add_geometries(append(self, Comment("Part", part.name)),
                                part, "visual", "visual"),
                 part, "collision", "collision")

\* one part of a link: its comment, its visual geometry, then its collision geometry
AddPart(self, part) ==
  LET s1 == append(self, Comment("Part", part.name))
      s2 == add_geometries(s1, part, "visual",
                           IF draw_collisions(self) THEN "collision" ELSE "visual")
  IN  add_geometries(s2, part, "collision", "collision")

RECURSIVE PartLoop(_, _, _)
PartLoop(self, parts, i) ==
  IF i > Len(parts) THEN self
  ELSE PartLoop(AddPart(self, parts[i]), parts, i + 1)

RECURSIVE add_link(_, _, _, _)
RECURSIVE ChildLoop(_, _, _, _)

add_link(self, robot, link, parent_joint) ==
  LET s1 == append(append(self, Comment("Link", link.name)), El("body", link.name, <<>>))
      s2 == IF parent_joint = None
            THEN append(s1, El("freejoint", "root", <<>>))
            ELSE add_joint(s1, parent_joint[1])
      s3 == add_inertial(s2, link)
      s4 == PartLoop(s3, link.parts, 1)
      s5 == FrameLoop(s4, link, 1)
      s6 == ChildLoop(s5, robot, get_link_joints(robot, link), 1)
  IN  append(s6, El("/body", "", <<>>))

ChildLoop(self, robot, joints, i) ==
  IF i > Len(joints) \/ ~Running(self) THEN self
  ELSE ChildLoop(add_link(self, robot, LinkNamed(robot, joints[i].child), Some(joints[i])),
                 robot, joints, i + 1)

(***************************************************************************)
(* build                                                                   *)
(***************************************************************************)
\* build() up to <worldbody>
Preamble(self, robot) ==
  LET s0 == [self EXCEPT !.xml = <<>>]
      s1 == append(append(s0, El("?xml", "", <<>>)), Comment("Generated", "onshape-to-robot"))
      s2 == IF self.config # None THEN append(s1, Comment("OnShape", "version")) ELSE s1
      s3 == append(append(append(s2, El("mujoco", robot.name, <<>>)),
                          El("compiler", "", <<>>)), El("option", "", <<>>))
      s4 == IF additional_xml(self) # "" THEN append(s3, El("#raw", additional_xml(self), <<>>))
            ELSE s3
      boilerplate ==
        << El("default", "", <<>>),
           El("joint", "", << <<"frictionloss", <<"0.1">> >>, <<"armature", <<"0.005">> >> >>),
           El("position", "", << <<"kp", <<"50">> >>, <<"kv", <<"5">> >> >>),
           El("default", "visual", <<>>),
           El("geom", "", << <<"type", <<"mesh">> >>, <<"contype", <<"0">> >>,
                             <<"conaffinity", <<"0">> >>, <<"group", <<"2">> >> >>),
           El("/default", "", <<>>),
           El("default", "collision", <<>>),
           El("geom", "", << <<"group", <<"3">> >> >>),
           El("/default", "", <<>>),
           El("/default", "", <<>>) >>
  IN  append([s4 EXCEPT !.xml = @ \o boilerplate], El("worldbody", "", <<>>))

\* build() through </worldbody>: the traversal from the base link
Walked(self, robot) ==
  append(add_link(Preamble(self, robot), robot, get_base_link(robot), None),
         El("/worldbody", "", <<>>))

\* the orders in which iterating set(self.meshes) can yield its elements
SetOrders(S) ==
  {order \in [1..Cardinality(S) -> S] :
     \A i, j \in 1..Cardinality(S) : i # j => order[i] # order[j]}

RECURSIVE MeshLoop(_, _, _)
MeshLoop(self, order, i) ==
  IF i > Len(order) THEN self
  ELSE MeshLoop(append(self, El("mesh", order[i], <<>>)), order, i + 1)

MaterialEl(entry) ==
  El("material", entry[1],
     << <<"rgba", <<Str(entry[2][1]), Str(entry[2][2]), Str(entry[2][3]), "1">> >> >>)

RECURSIVE MaterialLoop(_, _)
MaterialLoop(self, i) ==
  IF i > Len(self.materials) THEN self
  ELSE MaterialLoop(append(self, MaterialEl(self.materials[i])), i + 1)

\* the asset section, the meshes in the order the set yields them
Assets(self, order) ==
  append(MaterialLoop(MeshLoop(append(self, El("asset", "", <<>>)), order, 1), 1),
         El("/asset", "", <<>>))

build(self, robot, order) ==
  append(add_actuators(Assets(Walked(self, robot), order), robot), El("/mujoco", "", <<>>))

(***************************************************************************)
(* The robots the caller exports.  Every robot is a tree rooted at its     *)
(* base link, with unique link, joint and part names.                      *)
(***************************************************************************)
Red == <<1, 0, 0>>
Blue == <<0, 0, 1>>

MeshA == [dirs |-> <<"assets">>, pieces |-> <<"a", "stl">>]
MeshA2 == [dirs |-> <<"other">>, pieces |-> <<"a", "stl">>]
MeshB == [dirs |-> <<"assets">>, pieces |-> <<"b", "stl">>]
MeshC == [dirs |-> <<>>, pieces |-> <<"c", "v2", "stl">>]

Box == [kind |-> "Box", size |-> <<2, 4, 6>>]
Cylinder == [kind |-> "Cylinder", size |-> <<1, 4>>]
Sphere == [kind |-> "Sphere", size |-> <<3>>]

Part(name, mesh_file, shapes, color) ==
  [name |-> name, mesh_file |-> mesh_file, shapes |-> shapes, color |-> color]
Link(name, parts, frames) == [name |-> name, parts |-> parts, frames |-> frames]
Joint(name, joint_type, parent, child, properties, limits) ==
  [name |-> name, joint_type |-> joint_type, parent |-> parent, child |-> child,
   properties |-> properties, limits |-> limits]
Robot(name, links, joints) == [name |-> name, links |-> links, joints |-> joints]

NoProperties == [key \in {} |-> 0]
NoRobot == Robot("", <<>>, <<>>)

JointTypes == {REVOLUTE, PRISMATIC, FIXED}

\* "tree": every tree on at most MaxLinks links, its joints stored in every order
LinkName(i) == "L" \o Str(i - 1)
TreeType(i) == <<REVOLUTE, PRISMATIC, FIXED>>[((i - 2) % 3) + 1]
TreeProperties(i) ==
  <<NoProperties, [actuated |-> TRUE, effort |-> 1], [actuated |-> FALSE]>>[((i - 2) % 3) + 1]
TreeLink(i) ==
  Link(LinkName(i), <<Part("P" \o Str(i - 1), Some(MeshA), None, Red)>>,
       IF i = 2 THEN <<"tip">> ELSE <<>>)
TreeJoint(i, parent) ==
  Joint("J" \o Str(i - 1), TreeType(i), LinkName(parent), LinkName(i), TreeProperties(i), None)
ParentVectors(K) == {p \in [2..K -> 1..K] : \A i \in 2..K : p[i] < i}
StoredOrders(K) ==
  {o \in [1..(K - 1) -> 2..K] : \A i, j \in 1..(K - 1) : i # j => o[i] # o[j]}
TreeRobot(K, p, o) ==
  Robot("tree", [i \in 1..K |-> TreeLink(i)], [k \in 1..(K - 1) |-> TreeJoint(o[k], p[o[k]])])
TreeRobots ==
  UNION {{TreeRobot(K, p, o) : p \in ParentVectors(K), o \in StoredOrders(K)} : K \in 1..MaxLinks}

\* "props": two or three links, the joints' property mappings varied
PropValue(key) ==
  CASE key = "class" -> "servo"
    [] key = "friction" -> 1
    [] key = "frictionloss" -> 2
    [] key = "armature" -> 3
    [] key = "damping" -> 4
    [] key = "stiffness" -> 5
    [] key = "kp" -> 6
    [] key = "kd" -> 7
    [] key = "ki" -> 8

PlainLink(name) == Link(name, <<Part("p" \o name, Some(MeshA), None, Red)>>, <<>>)

OneJointRobot(joint_type, properties, limits) ==
  Robot("props", <<PlainLink("L0"), PlainLink("L1")>>,
        <<Joint("J1", joint_type, "L0", "L1", properties, limits)>>)

TwoJointRobot(properties1, properties2) ==
  Robot("props", <<PlainLink("L0"), PlainLink("L1"), PlainLink("L2")>>,
        <<Joint("J1", REVOLUTE, "L0", "L1", properties1, None),
          Joint("J2", PRISMATIC, "L0", "L2", properties2, None)>>)

PassThrough(keys) == [key \in keys |-> PropValue(key)]

ActuatorProperties(actuated, effort, type, gains) ==
  [key \in (IF actuated = None THEN {} ELSE {"actuated"})
             \cup (IF effort = None THEN {} ELSE {"effort"})
             \cup (IF type = None THEN {} ELSE {"type"}) \cup gains |->
     CASE key = "actuated" -> actuated[1]
       [] key = "effort" -> effort[1]
       [] key = "type" -> type[1]
       [] OTHER -> PropValue(key)]

ActuatedValues == {None, Some(TRUE), Some(FALSE)}
EffortValues == {None} \cup {Some(e) : e \in 0..MaxEffort}
TypeValues == {None, Some("position"), Some("motor")}
GainKeys == {{}, {"kp"}, {"class", "kp", "kd", "ki"}}
LimitValues == {None, Some(<<-1, 1>>)}

PropsRobots ==
  {OneJointRobot(t, PassThrough(keys), None) : t \in JointTypes, keys \in SUBSET Range(JointKeys)}
    \cup {OneJointRobot(REVOLUTE, ActuatorProperties(a, e, t, g), l) :
            a \in ActuatedValues, e \in EffortValues, t \in TypeValues, g \in GainKeys,
            l \in LimitValues}
    \cup {TwoJointRobot(ActuatorProperties(a1, e1, None, {}), ActuatorProperties(a2, e2, None, {})) :
            a1 \in ActuatedValues, a2 \in ActuatedValues,
            e1 \in {None, Some(1)}, e2 \in {None, Some(MaxEffort)}}

\* "geom": one link, its parts' mesh reference, shapes and color varied
MeshValues == {None, Some(MeshA), Some(MeshA2), Some(MeshB), Some(MeshC)}
ShapeValues == {None, Some(<<>>), Some(<<Box>>), Some(<<Cylinder, Sphere>>)}

GeomRobot(parts) == Robot("geom", <<Link("L0", parts, <<>>)>>, <<>>)

GeomRobots ==
  {GeomRobot(<<Part("a", m, s, c)>>) : m \in MeshValues, s \in ShapeValues, c \in {Red, Blue}}
    \cup {GeomRobot(<<Part("a", m1, s1, Red), Part("p2", m2, s2, Blue)>>) :
            m1 \in {None, Some(MeshA)}, s1 \in {None, Some(<<Box>>)},
            m2 \in {None, Some(MeshA2), Some(MeshB)}, s2 \in {None, Some(<<Sphere>>)}}

\* "reuse": a few robots exported one after the other by the same exporter
ReuseRobots ==
  {GeomRobot(<<Part("a", Some(MeshA), None, Red)>>),
   GeomRobot(<<Part("a", Some(MeshA), None, Blue)>>),
   GeomRobot(<<Part("b", Some(MeshB), None, Blue)>>),
   GeomRobot(<<Part("a", Some(MeshA), None, Red), Part("b", Some(MeshB), None, Blue)>>),
   GeomRobot(<<Part("s", None, Some(<<Box>>), Red)>>)}

Suites == {"tree", "props", "geom", "reuse"}

SuiteRobots(s) ==
  CASE s = "tree" -> TreeRobots
    [] s = "props" -> PropsRobots
    [] s = "geom" -> GeomRobots
    [] s = "reuse" -> ReuseRobots

\* build() calls the caller makes on the one exporter
SuiteBuilds(s) == IF s = "reuse" THEN MaxBuilds ELSE 1

Configs ==
  {None} \cup {Some([draw_collisions |-> d, collision_shapes_only |-> c, additional_xml |-> a]) :
                 d \in BOOLEAN, c \in BOOLEAN, a \in {"", "<custom/>"}}

(***************************************************************************)
(* The state machine: the exporter after __init__, and build() calls       *)
(***************************************************************************)
Init ==
  /\ suite \in Suites
  /\ config \in Configs
  /\ xml = <<>>
  /\ meshes = <<>>
  /\ materials = <<>>
  /\ lastRobot = NoRobot
  /\ status = "idle"
  /\ warnings = 0
  /\ builds = 0
  /\ prev = [robot |-> NoRobot, xml |-> <<>>, status |-> "idle"]

Build(r) ==
  /\ builds < SuiteBuilds(suite)
  /\ \E order \in SetOrders(Range(Walked(Self, r).meshes)) :
       LET out == build(Self, r, order) IN
         /\ xml' = out.xml
         /\ meshes' = out.meshes
         /\ materials' = out.materials
         /\ warnings' = out.warnings
         /\ status' = IF out.error = "" THEN "done" ELSE "error"
  /\ lastRobot' = r
  /\ builds' = builds + 1
  /\ prev' = [robot |-> lastRobot, xml |-> xml, status |-> status]
  /\ UNCHANGED <<suite, config>>

Next == \E r \in SuiteRobots(suite) : Build(r)

Spec == Init /\ [][Next]_vars

(***************************************************************************)
(* Reading a document                                                      *)
(***************************************************************************)
Done == status = "done"

Positions(doc, tag) == {i \in 1..Len(doc) : doc[i].tag = tag}
First(doc, tag) ==
  CHOOSE i \in 1..Len(doc) : doc[i].tag = tag /\ \A j \in 1..(i - 1) : doc[j].tag # tag

\* the positions strictly between the section's opening and closing tag
SectionOf(doc, tag) == (First(doc, tag) + 1)..(First(doc, "/" \o tag) - 1)

Has(el, key) == \E i \in 1..Len(el.attrs) : el.attrs[i][1] = key
Attr(el, key) == el.attrs[CHOOSE i \in 1..Len(el.attrs) : el.attrs[i][1] = key][2]
Occurrences(el, key) == Cardinality({i \in 1..Len(el.attrs) : el.attrs[i][1] = key})

\* bodies open at position i: opened before it and not yet closed
DepthAt(doc, i) ==
  Cardinality({j \in 1..(i - 1) : doc[j].tag = "body"})
    - Cardinality({j \in 1..(i - 1) : doc[j].tag = "/body"})

\* the body element that encloses position i
Enclosing(doc, i) ==
  CHOOSE j \in 1..(i - 1) :
    /\ doc[j].tag = "body"
    /\ DepthAt(doc, j) = DepthAt(doc, i) - 1
    /\ \A k \in (j + 1)..(i - 1) : doc[k].tag = "body" => DepthAt(doc, k) >= DepthAt(doc, i)

PartsOf(r) == UNION {Range(r.links[i].parts) : i \in 1..Len(r.links)}
JointsOf(r) == Range(r.joints)

\* the part whose "Part" comment is the latest one before position i
Owner(doc, r, i) ==
  LET c == CHOOSE j \in 1..(i - 1) :
             doc[j].tag = "!Part" /\ \A k \in (j + 1)..(i - 1) : doc[k].tag # "!Part"
  IN  CHOOSE part \in PartsOf(r) : part.name = doc[c].name

\* the positions of the geoms a part produced: those after its comment, up to the
\* next element that is neither a geom nor a mesh comment
GeomsOf(doc, part) ==
  LET c == CHOOSE j \in 1..Len(doc) : doc[j].tag = "!Part" /\ doc[j].name = part.name
      end == CHOOSE j \in (c + 1)..Len(doc) :
               /\ doc[j].tag \notin {"geom", "!Mesh"}
               /\ \A k \in (c + 1)..(j - 1) : doc[k].tag \in {"geom", "!Mesh"}
  IN  {i \in (c + 1)..(end - 1) : doc[i].tag = "geom"}

ClassOf(doc, i) == Attr(doc[i], "class")[1]
TypeOf(doc, i) == Attr(doc[i], "type")[1]

\* the text is a decimal numeral of n
Denotes(text, n) == text = Str(n) \/ (n = 0 /\ text = "-0")

HasMesh(part) == part.mesh_file # None
NoExplicitShapes(part) == part.shapes = None \/ part.shapes = Some(<<>>)
ShapesOnly == config # None /\ config[1].collision_shapes_only
DrawCollisions == config # None /\ config[1].draw_collisions

SectionSeq(doc, tag) == SubSeq(doc, First(doc, tag) + 1, First(doc, "/" \o tag) - 1)
NamesOf(els) == [i \in 1..Len(els) |-> els[i].name]
JointNamed(r, name) == CHOOSE joint \in JointsOf(r) : joint.name = name

\* add_joint was entered for the joint: its comment is in the document
Reached(doc, joint) ==
  \E i \in 1..Len(doc) : doc[i] = Comment("Joint", joint.parent \o " to " \o joint.child)

\* the joint's "actuated" property is absent or true
WantsActuator(joint) ==
  "actuated" \notin DOMAIN joint.properties \/ joint.properties["actuated"] = TRUE

RECURSIVE TreeDepth(_, _)
TreeDepth(r, name) ==
  IF name = r.links[1].name THEN 0
  ELSE 1 + TreeDepth(r, (CHOOSE joint \in JointsOf(r) : joint.child = name).parent)

\* one body element per link, opened and closed once, properly nested, at the
\* link's depth in the joint tree
Coverage(doc, r) ==
  /\ Cardinality(Positions(doc, "body")) = Len(r.links)
  /\ Cardinality(Positions(doc, "/body")) = Len(r.links)
  /\ \A i \in 1..(Len(doc) + 1) : DepthAt(doc, i) >= 0
  /\ DepthAt(doc, Len(doc) + 1) = 0
  /\ \A l \in Range(r.links) :
       /\ Cardinality({i \in Positions(doc, "body") : doc[i].name = l.name}) = 1
       /\ \A i \in Positions(doc, "body") :
            doc[i].name = l.name => DepthAt(doc, i) = TreeDepth(r, l.name)

(***************************************************************************)
(* The claims                                                              *)
(***************************************************************************)

\* C1: asset-registry state never leaks between build() calls: the asset section of
\* a returned document declares only meshes that parts of the robot just exported
\* reference and only materials that a geom of this document's worldbody refers to.
C1_NoLeakBetweenBuilds ==
  Done =>
    \A i \in SectionOf(xml, "asset") :
      /\ xml[i].tag = "mesh" =>
           \E part \in PartsOf(lastRobot) :
             HasMesh(part) /\ Basename(part.mesh_file[1]) = xml[i].name
      /\ xml[i].tag = "material" =>
           \E g \in SectionOf(xml, "worldbody") :
             /\ xml[g].tag = "geom"
             /\ Has(xml[g], "material")
             /\ Attr(xml[g], "material") = <<xml[i].name>>

\* C2: tree coverage: every build() of a tree of K links returns, and the document
\* has exactly K body elements, one per link, opened and closed once, properly
\* nested, each at the nesting depth that is its link's depth in the joint tree.
C2_TreeCoverage == builds > 0 => Done /\ Coverage(xml, lastRobot)

\* What the traversal does whenever build() returns: the coverage C2 states.
CoverageWhenDone == Done => Coverage(xml, lastRobot)

\* C5: export is deterministic: two successive exports of the same robot by the same
\* exporter (so with the same configuration) return identical documents, the order
\* of the mesh declarations included.
C5_Deterministic ==
  (Done /\ prev.status = "done" /\ prev.robot = lastRobot) => xml = prev.xml

\* C7: the actuator elements list the actuated joints in the order in which the
\* traversal emitted their joint elements (pre-order of the link tree).
C7_ActuatorsInPreOrder ==
  Done =>
    NamesOf(SectionSeq(xml, "actuator"))
      = NamesOf(SelectSeq(SectionSeq(xml, "worldbody"),
                          LAMBDA el : el.tag = "joint"
                                        /\ WantsActuator(JointNamed(lastRobot, el.name))))

\* C8: a FIXED joint is non-fatal and flagged: for every FIXED joint the traversal
\* reaches a warning is printed, a substitute joint element is emitted inside the
\* child's body and build() returns the full document; revolute joints become
\* hinges and prismatic joints slides, and only FIXED joints are warned about.
C8_FixedJointNonFatal ==
  builds > 0 =>
    /\ \A joint \in JointsOf(lastRobot) :
         (Reached(xml, joint) /\ joint.joint_type = FIXED) =>
           /\ warnings >= 1
           /\ \E i \in 1..Len(xml) :
                /\ xml[i].tag = "joint" /\ xml[i].name = joint.name
                /\ xml[Enclosing(xml, i)].name = joint.child
           /\ Done /\ Coverage(xml, lastRobot)
    /\ Done =>
         /\ warnings = Cardinality({joint \in JointsOf(lastRobot) : joint.joint_type = FIXED})
         /\ \A i \in SectionOf(xml, "worldbody") :
              xml[i].tag = "joint" =>
                LET t == JointNamed(lastRobot, xml[i].name).joint_type IN
                  /\ t = REVOLUTE => Attr(xml[i], "type") = <<"hinge">>
                  /\ t = PRISMATIC => Attr(xml[i], "type") = <<"slide">>

\* C9: joint property pass-through: for every joint add_joint is entered for, it
\* completes and the joint element carries each recognized property the joint has
\* exactly once, with the joint's value for it, "friction" under the name
\* frictionloss, and no attribute name twice.
C9_JointPassThrough ==
  builds > 0 =>
    \A joint \in JointsOf(lastRobot) :
      Reached(xml, joint) =>
        \E i \in 1..Len(xml) :
          /\ xml[i].tag = "joint" /\ xml[i].name = joint.name
          /\ \A key \in DOMAIN joint.properties \cap Range(JointKeys) :
               LET out == IF key = "friction" THEN "frictionloss" ELSE key IN
                 /\ Occurrences(xml[i], out) = 1
                 /\ Attr(xml[i], out) = <<Format(key, joint.properties[key])>>
          /\ \A k \in 1..Len(xml[i].attrs) : Occurrences(xml[i], xml[i].attrs[k][1]) = 1

\* the geoms of the part with the given class, as positions
ClassGeoms(doc, part, class_) == {i \in GeomsOf(doc, part) : ClassOf(doc, i) = class_}

\* the parts of the robot just exported that reference a mesh and have no shapes
MeshOnlyParts == {part \in PartsOf(lastRobot) : HasMesh(part) /\ NoExplicitShapes(part)}

\* C3 as stated: in shapes-only mode a part with a mesh reference and no explicit
\* shapes produces no geom of class visual.
C3_NoVisualGeom ==
  (Done /\ ShapesOnly) => \A part \in MeshOnlyParts : ClassGeoms(xml, part, "visual") = {}

\* C3 as amended: in shapes-only mode a part with a mesh reference and no explicit
\* shapes produces no geom of class collision; it produces no geom of class visual
\* only if collision geometry is also drawn as visual, and otherwise exactly one
\* visual geom, of type mesh.
C3_NoCollisionGeom ==
  (Done /\ ShapesOnly) =>
    \A part \in MeshOnlyParts :
      /\ ClassGeoms(xml, part, "collision") = {}
      /\ DrawCollisions => ClassGeoms(xml, part, "visual") = {}
      /\ ~DrawCollisions =>
           /\ Cardinality(ClassGeoms(xml, part, "visual")) = 1
           /\ \A i \in ClassGeoms(xml, part, "visual") : TypeOf(xml, i) = "mesh"

C3_Witness ==
  /\ Done /\ ShapesOnly /\ ~DrawCollisions
  /\ \E part \in MeshOnlyParts : Cardinality(ClassGeoms(xml, part, "visual")) = 1

\* C4: the actuator section has exactly one element for every joint whose
\* "actuated" property is absent or true and none for a joint whose "actuated" is
\* false; the force range of an actuated joint with effort e (a limit, e >= 0) is
\* the pair of numerals of -e and e.
C4_Actuators ==
  Done =>
    \A joint \in JointsOf(lastRobot) :
      LET els == {i \in SectionOf(xml, "actuator") : xml[i].name = joint.name} IN
        /\ Cardinality(els) = IF WantsActuator(joint) THEN 1 ELSE 0
        /\ \A i \in els :
             "effort" \in DOMAIN joint.properties =>
               /\ Occurrences(xml[i], "forcerange") = 1
               /\ Len(Attr(xml[i], "forcerange")) = 2
               /\ Denotes(Attr(xml[i], "forcerange")[1], 0 - joint.properties["effort"])
               /\ Denotes(Attr(xml[i], "forcerange")[2], joint.properties["effort"])

C4_Witness ==
  /\ Done
  /\ \E j1, j2 \in JointsOf(lastRobot) :
       /\ ~WantsActuator(j1)
       /\ WantsActuator(j2)
       /\ "effort" \in DOMAIN j2.properties /\ j2.properties["effort"] >= 1
       /\ \E i \in SectionOf(xml, "actuator") :
            xml[i].name = j2.name /\ Has(xml[i], "forcerange")
  /\ Cardinality(SectionOf(xml, "actuator")) = 1

\* add_mesh and add_shapes register a material exactly when the geom they append
\* carries a material attribute: the registrations of this traversal, as positions
MaterialRegs ==
  {i \in SectionOf(xml, "worldbody") : xml[i].tag = "geom" /\ Has(xml[i], "material")}

\* the last of the registrations regs that registers the name
LastReg(regs, name) ==
  CHOOSE i \in regs :
    /\ Attr(xml[i], "material") = <<name>>
    /\ \A j \in regs : Attr(xml[j], "material") = <<name>> => j <= i

\* every mesh geom is one add_mesh call: the registrations of each mesh identifier,
\* as the identifiers of the mesh geoms' parts
MeshRegs ==
  LET world == SectionOf(xml, "worldbody")
      geoms == {i \in world : xml[i].tag = "geom" /\ TypeOf(xml, i) = "mesh"}
  IN  [i \in geoms |-> Basename(Owner(xml, lastRobot, i).mesh_file[1])]

Rgba(color) == <<Str(color[1]), Str(color[2]), Str(color[3]), "1">>

\* C6: idempotent asset registration: a mesh identifier registered N >= 1 times
\* in the traversal has exactly one mesh declaration in the asset section, and a
\* material name registered in the traversal has exactly one material declaration,
\* whose color is that of the last registration of the name.
C6_IdempotentRegistration ==
  Done =>
    LET asset == SectionOf(xml, "asset")
        meshRegs == MeshRegs
        regs == MaterialRegs
    IN  /\ \A i \in DOMAIN meshRegs :
             Cardinality({k \in asset : xml[k].tag = "mesh" /\ xml[k].name = meshRegs[i]}) = 1
        /\ \A k1, k2 \in asset :
             (xml[k1].tag = xml[k2].tag /\ xml[k1].name = xml[k2].name) => k1 = k2
        /\ \A i \in regs :
             LET name == Attr(xml[i], "material")[1]
                 decls == {k \in asset : xml[k].tag = "material" /\ xml[k].name = name}
             IN  /\ Cardinality(decls) = 1
                 /\ \A k \in decls :
                      Attr(xml[k], "rgba") = Rgba(Owner(xml, lastRobot, LastReg(regs, name)).color)

C6_Witness ==
  /\ Done
  /\ \E i, j \in MaterialRegs :
       /\ i < j
       /\ Attr(xml[i], "material") = Attr(xml[j], "material")
       /\ Owner(xml, lastRobot, i).color # Owner(xml, lastRobot, j).color
  /\ \E i, j \in DOMAIN MeshRegs : i < j /\ MeshRegs[i] = MeshRegs[j]

\* the geoms a part produced, in document order
GeomSeqOf(doc, part) ==
  LET c == CHOOSE j \in 1..Len(doc) : doc[j].tag = "!Part" /\ doc[j].name = part.name
      end == CHOOSE j \in (c + 1)..Len(doc) :
               /\ doc[j].tag \notin {"geom", "!Mesh"}
               /\ \A k \in (c + 1)..(j - 1) : doc[k].tag \in {"geom", "!Mesh"}
  IN  SelectSeq(SubSeq(doc, c + 1, end - 1), LAMBDA el : el.tag = "geom")

WithClass(els, class_) == SelectSeq(els, LAMBDA el : Attr(el, "class") = <<class_>>)

\* what a geom shows, its class and material reference aside
Content(el) == SelectSeq(el.attrs, LAMBDA a : a[1] \notin {"class", "material"})

KindType(kind) ==
  CASE kind = "Box" -> "box" [] kind = "Cylinder" -> "cylinder" [] kind = "Sphere" -> "sphere"

\* the collision policy: one geom per Shape of a part that declares shapes (its
\* shapes attribute is a list), else one mesh geom if the part references a mesh
\* and shapes-only mode is off, else nothing
CollisionPolicy(part) ==
  IF part.shapes # None
  THEN [i \in 1..Len(part.shapes[1]) |-> KindType(part.shapes[1][i].kind)]
  ELSE IF HasMesh(part) /\ ~ShapesOnly THEN <<"mesh">>
  ELSE <<>>

\* C10: the selection policy is independent of the class: the collision class
\* geoms of every part are those of the collision policy; when collision geometry
\* is drawn as visual, the visual class geoms of a part show the same content as
\* its collision class geoms; a part's visual geoms precede its collision geoms.
C10_PolicyIndependentOfClass ==
  Done =>
    \A part \in PartsOf(lastRobot) :
      LET gs == GeomSeqOf(xml, part)
          vis == WithClass(gs, "visual")
          col == WithClass(gs, "collision")
      IN  /\ gs = vis \o col
          /\ [i \in 1..Len(col) |-> Attr(col[i], "type")[1]] = CollisionPolicy(part)
          /\ DrawCollisions =>
               /\ Len(vis) = Len(col)
               /\ \A i \in 1..Len(vis) : Content(vis[i]) = Content(col[i])

C10_Witness ==
  /\ Done /\ DrawCollisions
  /\ \E part \in PartsOf(lastRobot) :
       /\ HasMesh(part)
       /\ part.shapes # None /\ Len(part.shapes[1]) = 2
       /\ Len(WithClass(GeomSeqOf(xml, part), "visual")) = 2
       /\ Len(WithClass(GeomSeqOf(xml, part), "collision")) = 2

====
